---- MODULE Spec2Model ----
(***************************************************************************)
(* A model of akamai-get.py: the RuleInfo rule-tree flattener, the request *)
(* path builder AkamaiBase._apipath, the AkamaiDiag calls and the command  *)
(* dispatch of the __main__ block.                                         *)
(*                                                                         *)
(* Python values are modelled as follows.  A dict is a TLA+ function whose *)
(* DOMAIN is the dict's key set, so that a missing key is a missing        *)
(* element of the DOMAIN; the empty dict is <<>>.  A list is a sequence.   *)
(* The objects of a rule tree live in a heap (node id -> rule dict) and a  *)
(* rule's 'children' list holds node ids, as a Python list holds           *)
(* references.  A text that is printed or sent is a sequence of            *)
(* characters; a constant piece of text none of whose characters matters   *)
(* to the code is kept as one element of the sequence.                     *)
(***************************************************************************)
EXTENDS Integers, Sequences, FiniteSets, TLC

VARIABLES
    pc,         \* position of the program
    exception,  \* the uncaught exception once pc = "raised", else NoException
    args,       \* the arguments: command (or method), param, account, json
    api,        \* what the API answers to each call of this run
    requests,   \* the paths handed to session.get / session.post, in order
    rules,      \* RuleInfo._rules
    heap,       \* the rule objects: node id -> rule dict
    given,      \* the rule objects as they were handed to RuleInfo (history)
    behaviors,  \* RuleInfo._behaviors
    criteria,   \* RuleInfo._criteria
    stack,      \* the active calls of RuleInfo._runrules
    result,     \* the variable result of __main__
    stdout,     \* lines printed to standard output
    stderr,     \* lines written to standard error while the program runs
    jsonfile    \* content of the --json file

vars == <<pc, exception, args, api, requests, rules, heap, given, behaviors,
          criteria, stack, result, stdout, stderr, jsonfile>>

(***************************************************************************)
(* Bounds of the model.                                                    *)
(***************************************************************************)
MaxNodes == 4       \* rule nodes of a tree handed to RuleInfo directly
MaxCliNodes == 4    \* rule nodes of a tree answered to the origins command
MaxEntries == 3     \* entries of urlDebug.httpResponse
MaxRefLen == 4      \* characters of the reference argument

(***************************************************************************)
(* Python values.                                                          *)
(***************************************************************************)
None == [pyNone |-> TRUE]
Undefined == [pyUnbound |-> TRUE]   \* a name that was never assigned
EmptyDict == <<>>
NoException == "none"

HasKey(d, k) == k \in DOMAIN d

\* d[k] = v
SetKey(d, k, v) == [x \in (DOMAIN d) \cup {k} |-> IF x = k THEN v ELSE d[x]]

\* mutant of Truthy: only None counts as absent
Truthy_NotNone(x) == x # None

\* bool(x) of None or of a dict
Truthy(x) == x # None /\ DOMAIN x # {}

(***************************************************************************)
(* RuleInfo._runrules, lines 98-112.                                       *)
(***************************************************************************)
\* mutant of AddBehavior: the entry is put at the front of its bucket
AddBehavior_Front(bmap, behavior) ==
    LET nm == behavior.name
        base == IF HasKey(bmap, nm) THEN bmap ELSE SetKey(bmap, nm, <<>>)
    IN  [base EXCEPT ![nm] = <<behavior>> \o @]

\* lines 100-102, one behavior
AddBehavior(bmap, behavior) ==
    LET nm == behavior.name
        base == IF HasKey(bmap, nm) THEN bmap ELSE SetKey(bmap, nm, <<>>)
    IN  [base EXCEPT ![nm] = Append(@, behavior)]

RECURSIVE AddBehaviors(_, _)
\* lines 99-102, the loop over rule['behaviors']
AddBehaviors(bmap, blist) ==
    IF blist = <<>> THEN bmap
    ELSE AddBehaviors(AddBehavior(bmap, Head(blist)), Tail(blist))

\* mutant of Annotate: the rulename is that of the root rule
Annotate_Root(criterion, rulename) == SetKey(criterion, "rulename", "default")

\* line 108: the criterion object after criteria['rulename'] = rule['name']
Annotate(criterion, rulename) == SetKey(criterion, "rulename", rulename)

\* lines 106-109, one criterion
AddCriterion(cmap, criterion, rulename) ==
    LET nm == criterion.name
        base == IF HasKey(cmap, nm) THEN cmap ELSE SetKey(cmap, nm, <<>>)
    IN  [base EXCEPT ![nm] = Append(@, Annotate(criterion, rulename))]

RECURSIVE AddCriteria(_, _, _)
\* lines 105-109, the loop over rule['criteria']
AddCriteria(cmap, clist, rulename) ==
    IF clist = <<>> THEN cmap
    ELSE AddCriteria(AddCriterion(cmap, Head(clist), rulename), Tail(clist), rulename)

\* the list rule['criteria'] after the loop annotated each of its objects
AnnotateAll(clist, rulename) == [i \in 1..Len(clist) |-> Annotate(clist[i], rulename)]

\* line 104
CriteriaPresent(rule) == HasKey(rule, "criteria")

\* the rule objects after lines 104-109 ran on rule r
HeapAfterCriteria(h, r) ==
    IF CriteriaPresent(h[r])
    THEN [h EXCEPT ![r] = [@ EXCEPT !["criteria"] = AnnotateAll(@, h[r].name)]]
    ELSE h

\* mutant of Subscript: d.get(k, [])
Subscript_Default(d, k) ==
    [ok |-> TRUE, value |-> IF HasKey(d, k) THEN d[k] ELSE <<>>]

\* d[k] where the value is a list: the value, or KeyError
Subscript(d, k) ==
    IF HasKey(d, k) THEN [ok |-> TRUE, value |-> d[k]]
    ELSE [ok |-> FALSE, value |-> <<>>]

\* a call of _runrules(rule) about to run line 99
Call(r) == [rule |-> r, at |-> "body", kids |-> <<>>, next |-> 1]

\* RuleInfo.__init__, lines 91-96
RuleInfoInit ==
    /\ pc = "RuleInfo.__init__"
    /\ behaviors' = EmptyDict
    /\ criteria' = EmptyDict
    /\ IF Truthy(rules)
       THEN IF HasKey(rules, "rules")
            THEN /\ pc' = "_runrules"
                 /\ stack' = <<Call(rules["rules"])>>
                 /\ exception' = exception
            ELSE /\ pc' = "raised"
                 /\ exception' = "KeyError"
                 /\ stack' = stack
       ELSE /\ pc' = "constructed"
            /\ UNCHANGED <<stack, exception>>
    /\ UNCHANGED <<args, api, requests, rules, heap, given, result, stdout, stderr, jsonfile>>

\* One call of _runrules from its entry up to the start of the loop over the
\* children: lines 99-111, the evaluation of rule['children'] included. The
\* frame keeps the list the loop of line 111 iterates.
RunRulesBody ==
    /\ pc = "_runrules"
    /\ stack # <<>>
    /\ LET top == stack[Len(stack)]
           r == top.rule
           rule == heap[r]
           blist == Subscript(rule, "behaviors")
           kids == Subscript(rule, "children")
       IN  /\ top.at = "body"
           /\ IF ~blist.ok
              THEN /\ pc' = "raised"
                   /\ exception' = "KeyError"
                   /\ UNCHANGED <<behaviors, criteria, heap, stack>>
              ELSE /\ behaviors' = AddBehaviors(behaviors, blist.value)
                   /\ criteria' = IF CriteriaPresent(rule)
                                  THEN AddCriteria(criteria, rule.criteria, rule.name)
                                  ELSE criteria
                   /\ heap' = HeapAfterCriteria(heap, r)
                   /\ IF ~kids.ok
                      THEN /\ pc' = "raised"
                           /\ exception' = "KeyError"
                           /\ stack' = stack
                      ELSE /\ stack' = [stack EXCEPT ![Len(stack)] =
                                          [@ EXCEPT !.at = "children", !.kids = kids.value]]
                           /\ UNCHANGED <<pc, exception>>
    /\ UNCHANGED <<args, api, requests, rules, given, result, stdout, stderr, jsonfile>>

\* lines 111-112: the loop takes the next child and calls _runrules on it
RunRulesChild ==
    /\ pc = "_runrules"
    /\ stack # <<>>
    /\ LET top == stack[Len(stack)]
       IN  /\ top.at = "children"
           /\ top.next <= Len(top.kids)
           /\ stack' = Append([stack EXCEPT ![Len(stack)].next = @ + 1],
                              Call(top.kids[top.next]))
    /\ UNCHANGED <<pc, exception, args, api, requests, rules, heap, given, behaviors,
                   criteria, result, stdout, stderr, jsonfile>>

\* line 111 with the children exhausted: the call returns; the outermost
\* return ends RuleInfo.__init__
RunRulesReturn ==
    /\ pc = "_runrules"
    /\ stack # <<>>
    /\ LET top == stack[Len(stack)]
       IN  /\ top.at = "children"
           /\ top.next > Len(top.kids)
    /\ stack' = SubSeq(stack, 1, Len(stack) - 1)
    /\ pc' = IF Len(stack) = 1 THEN "constructed" ELSE pc
    /\ UNCHANGED <<exception, args, api, requests, rules, heap, given, behaviors,
                   criteria, result, stdout, stderr, jsonfile>>

(***************************************************************************)
(* The rule trees the model runs on.                                       *)
(***************************************************************************)
OriginCustomerA ==
    [name |-> "origin",
     options |-> [originType |-> "CUSTOMER", hostname |-> <<"a.example.com">>]]
OriginCustomerC ==
    [name |-> "origin",
     options |-> [originType |-> "CUSTOMER", hostname |-> <<"c.example.com">>]]
OriginNetStorage ==
    [name |-> "origin",
     options |-> [originType |-> "NET_STORAGE",
                  netStorage |-> [downloadDomainName |-> <<"b.example.com.download">>]]]
OriginOther ==
    [name |-> "origin", options |-> [originType |-> "MEDIA_SERVICE_LIVE"]]
Caching == [name |-> "caching", options |-> [behavior |-> "NO_STORE"]]

PathCriterion == [name |-> "path"]
HostCriterion == [name |-> "hostname"]
\* a criterion that arrives with a rulename of its own
StaleCriterion == [name |-> "path", rulename |-> "stale"]

\* what one rule node holds besides its name and its children
FullPayload ==
    [behaviors |-> <<OriginOther, OriginCustomerC>>,
     criteria |-> <<HostCriterion, StaleCriterion>>]
CustomerPayload == [behaviors |-> <<OriginCustomerA>>, criteria |-> <<PathCriterion>>]
NodePayloads ==
    { [behaviors |-> <<Caching>>, criteria |-> <<>>],
      CustomerPayload,
      [behaviors |-> <<OriginNetStorage, Caching>>],
      FullPayload }
\* the payloads of the rules of a tree answered to the origins command
CliPayloads == NodePayloads \ {CustomerPayload}

RuleName(i) == IF i = 1 THEN "default" ELSE "rule" \o ToString(i)

RECURSIVE Ascending(_)
Ascending(S) ==
    IF S = {} THEN <<>>
    ELSE LET m == CHOOSE x \in S : \A y \in S : x <= y
         IN  <<m>> \o Ascending(S \ {m})

\* the trees of n nodes: node 1 is the root, node i > 1 hangs under parent[i]
Parents(n) == {p \in [2..n -> 1..n] : \A i \in 2..n : p[i] < i}

MakeHeap(n, parent, payload) ==
    [i \in 1..n |->
        payload[i] @@ [name |-> RuleName(i),
                       children |-> Ascending({j \in 2..n : parent[j] = i})]]

\* a rule dict without key k
DropKey(d, k) == [x \in (DOMAIN d) \ {k} |-> d[x]]

RuleKeys == {"behaviors", "criteria", "children"}

\* the tree of n nodes in which node m lacks the list k
Malformed(n, parent, m, k) ==
    [MakeHeap(n, parent, [i \in 1..n |-> FullPayload]) EXCEPT ![m] = DropKey(@, k)]

\* a rule tree whose root holds three empty lists
EmptyRootHeap ==
    (1 :> [name |-> "default", behaviors |-> <<>>, criteria |-> <<>>, children |-> <<>>])

\* an API answer that is no rule tree
ErrorBody == [title |-> "Forbidden"]

\* the root rule of a rule-tree document
RuleTree == [rules |-> 1]

\* the arguments RuleInfo is constructed with: no rule tree, or the root of a
\* tree of at most MaxNodes nodes
RuleInfoInput(r, h) ==
    \/ r \in {None, EmptyDict, ErrorBody} /\ h = <<>>
    \/ r = RuleTree /\ h = EmptyRootHeap
    \/ \E n \in 1..MaxNodes : \E parent \in Parents(n) :
          \/ \E payload \in [1..n -> NodePayloads] :
                r = RuleTree /\ h = MakeHeap(n, parent, payload)
          \/ \E m \in 1..n, k \in RuleKeys :
                r = RuleTree /\ h = Malformed(n, parent, m, k)

NoArgs == [command |-> None, param |-> <<>>, account |-> None, json |-> None]
NoApi == <<>>

InitRuleInfo ==
    /\ pc = "RuleInfo.__init__"
    /\ exception = NoException
    /\ args = NoArgs
    /\ api = NoApi
    /\ requests = <<>>
    /\ RuleInfoInput(rules, heap)
    /\ given = heap
    /\ behaviors = EmptyDict
    /\ criteria = EmptyDict
    /\ stack = <<>>
    /\ result = Undefined
    /\ stdout = <<>>
    /\ stderr = <<>>
    /\ jsonfile = None

NextRuleInfo ==
    \/ RuleInfoInit
    \/ RunRulesBody
    \/ RunRulesChild
    \/ RunRulesReturn

\* RuleInfo constructed on its own
SpecRuleInfo == InitRuleInfo /\ [][NextRuleInfo]_vars

(***************************************************************************)
(* Texts.  A str is a sequence of characters.  Where a slot holds values   *)
(* of several Python types, a str is wrapped as Text(s) and a list as      *)
(* List(l), beside None, Undefined and dicts.                              *)
(***************************************************************************)
Text(s) == [text |-> s]
List(l) == [list |-> l]

\* bool(x) of None or of a str
TruthyText(x) == x # None /\ x.text # <<>>

Contains(s, c) == \E i \in 1..Len(s) : s[i] = c

\* the index of the first c in s, which contains c
IndexOf(s, c) == CHOOSE i \in 1..Len(s) : s[i] = c /\ \A j \in 1..(i - 1) : s[j] # c

RECURSIVE Split(_, _)
\* s.split(sep)
Split(s, sep) ==
    IF ~Contains(s, sep) THEN <<s>>
    ELSE LET i == IndexOf(s, sep)
         IN  <<SubSeq(s, 1, i - 1)>> \o Split(SubSeq(s, i + 1, Len(s)), sep)

DigitChar == <<"0", "1", "2", "3", "4", "5", "6", "7", "8", "9">>
IsDigit(c) == \E n \in 1..10 : DigitChar[n] = c
DigitValue(c) == (CHOOSE n \in 1..10 : DigitChar[n] = c) - 1

RECURSIVE DecimalDigits(_)
\* str(n), n >= 0
DecimalDigits(n) ==
    IF n < 10 THEN <<DigitChar[n + 1]>>
    ELSE DecimalDigits(n \div 10) \o <<DigitChar[(n % 10) + 1]>>

RECURSIVE LeadingDigits(_)
\* how many digits s starts with
LeadingDigits(s) ==
    IF s # <<>> /\ IsDigit(Head(s)) THEN 1 + LeadingDigits(Tail(s)) ELSE 0

RECURSIVE Number(_)
\* int(s) of a run of digits
Number(s) ==
    IF s = <<>> THEN 0
    ELSE 10 * Number(SubSeq(s, 1, Len(s) - 1)) + DigitValue(s[Len(s)])

\* the characters the model's texts can name by number
AsciiChar ==
    (33 :> "!") @@ (35 :> "#") @@ (38 :> "&") @@ (47 :> "/") @@ (51 :> "3")
    @@ (53 :> "5") @@ (55 :> "7") @@ (59 :> ";") @@ (63 :> "?") @@ (69 :> "E")

\* html._replace_charref for a decimal reference &#num: the replacement text.
\* 0, 13 and 128..159 have replacements of their own, surrogates and numbers
\* past U+10FFFF give U+FFFD, the other control characters and the
\* noncharacters give no text.
CharRef(num) ==
    IF num = 0 \/ num \in 55296..57343 \/ num > 1114111 THEN <<"U+65533">>
    ELSE IF num = 13 THEN <<"U+13">>
    ELSE IF num \in 128..159 THEN <<"cp1252+" \o ToString(num)>>
    ELSE IF \/ num \in (1..8) \cup {11} \cup (14..31) \cup {127} \cup (64976..65007)
            \/ num % 65536 \in {65534, 65535}
         THEN <<>>
    ELSE IF num \in DOMAIN AsciiChar THEN <<AsciiChar[num]>>
    ELSE <<"U+" \o ToString(num)>>

RECURSIVE Unescape(_)
\* html.unescape(s) for s over RefChars: '&#' digits and an optional ';' is
\* replaced; over these characters no hexadecimal reference can be written and
\* no run after '&' is or starts with a name of the HTML5 entity table, so
\* every other '&' stays as it is.
Unescape(s) ==
    IF s = <<>> THEN <<>>
    ELSE IF Head(s) = "&" /\ Len(s) >= 3 /\ s[2] = "#" /\ IsDigit(s[3])
         THEN LET k == LeadingDigits(SubSeq(s, 3, Len(s)))
                  last == IF 3 + k <= Len(s) /\ s[3 + k] = ";" THEN 3 + k ELSE 2 + k
              IN  CharRef(Number(SubSeq(s, 3, 2 + k)))
                  \o Unescape(SubSeq(s, last + 1, Len(s)))
         ELSE <<Head(s)>> \o Unescape(Tail(s))

NameWidth == 22

RECURSIVE Spaces(_)
Spaces(n) == IF n <= 0 THEN <<>> ELSE <<" ">> \o Spaces(n - 1)

\* '{:<22}'.format(s)
PadRight(s, width) == s \o Spaces(width - Len(s))

\* '{name:<22}: {value}', lines 267 and 276
KeyValueLine(name, value) == PadRight(name, NameWidth) \o <<":", " ">> \o value

\* what print puts on a stream: a line of text, or the text of json.dumps
Line(s) == [line |-> s]
JsonDumps(v, indent) == [json |-> v, indent |-> indent]
\* the file json.dump(result, fp) leaves
JsonFile(v) == [json |-> v]
\* the file open(path, 'w') leaves when nothing is written to it
EmptyFile == [empty |-> TRUE]

(***************************************************************************)
(* AkamaiBase._apipath, lines 149-159.  A parameters dict is Dict(items),  *)
(* items being its (key, value) pairs in insertion order.                  *)
(***************************************************************************)
Dict(items) == [items |-> items]
Item(k, v) == [key |-> k, value |-> v]

\* the items after d[k] = v
SetItem(items, k, v) ==
    IF \E i \in 1..Len(items) : items[i].key = k
    THEN [i \in 1..Len(items) |-> IF items[i].key = k THEN Item(k, v) ELSE items[i]]
    ELSE Append(items, Item(k, v))

\* the characters urllib.parse.quote_plus does not keep
PercentCode ==
    ("#" :> "%23") @@ ("&" :> "%26") @@ ("/" :> "%2F") @@ (":" :> "%3A")
    @@ (";" :> "%3B") @@ ("=" :> "%3D") @@ ("?" :> "%3F")

QuotePlusChar(c) ==
    IF c = " " THEN "+" ELSE IF c \in DOMAIN PercentCode THEN PercentCode[c] ELSE c

QuotePlus(s) == [i \in 1..Len(s) |-> QuotePlusChar(s[i])]

RECURSIVE UrlEncode(_)
\* urllib.parse.urlencode(parameters)
UrlEncode(items) ==
    IF items = <<>> THEN <<>>
    ELSE LET pair == QuotePlus(Head(items).key) \o <<"=">> \o QuotePlus(Head(items).value)
         IN  IF Len(items) = 1 THEN pair
             ELSE pair \o <<"&">> \o UrlEncode(Tail(items))

\* self.baseurl, line 143
BaseUrl == <<"https:", "/", "/", "akab-host.luna.akamaiapis.net">>

\* the index of the last '/' of path, 0 if it has none of its own
LastSlash(path) ==
    IF Contains(path, "/")
    THEN CHOOSE i \in 1..Len(path) : path[i] = "/" /\ \A j \in (i + 1)..Len(path) : path[j] # "/"
    ELSE 0

\* urljoin(self.baseurl, ttpath), line 157.  ttpath starts with '/' and holds
\* no '.' or '..' segment, so its path replaces the empty path of the base
\* URL; urljoin parses it (fragment after the first '#', query after the
\* first '?' before it, parameters after the first ';' of the last path
\* segment) and puts it together again, which drops the ';' of empty
\* parameters, the '?' of an empty query and the '#' of an empty fragment.
UrlJoin(base, ttpath) ==
    LET f == IF Contains(ttpath, "#") THEN IndexOf(ttpath, "#") ELSE Len(ttpath) + 1
        url == SubSeq(ttpath, 1, f - 1)
        fragment == SubSeq(ttpath, f + 1, Len(ttpath))
        q == IF Contains(url, "?") THEN IndexOf(url, "?") ELSE Len(url) + 1
        path == SubSeq(url, 1, q - 1)
        query == SubSeq(url, q + 1, Len(url))
        segment == SubSeq(path, LastSlash(path) + 1, Len(path))
        kept == IF Contains(segment, ";") /\ IndexOf(segment, ";") = Len(segment)
                THEN SubSeq(path, 1, Len(path) - 1)
                ELSE path
    IN  base \o kept \o (IF query = <<>> THEN <<>> ELSE <<"?">> \o query)
             \o (IF fragment = <<>> THEN <<>> ELSE <<"#">> \o fragment)

AccountKey == <<"accountSwitchKey">>

\* self._apipath(endpoint, parameters) of a client built with account
ApiPath(account, endpoint, parameters) ==
    LET items == IF parameters = None THEN <<>> ELSE parameters.items
        sent == IF TruthyText(account) THEN SetItem(items, AccountKey, account.text)
                ELSE items
        ttpath == IF sent # <<>> /\ ~Contains(endpoint, "?")
                  THEN endpoint \o <<"?">> \o UrlEncode(sent)
                  ELSE endpoint
    IN  UrlJoin(BaseUrl, ttpath)

Get(path) == [method |-> "GET", path |-> path]
Post(path, body) == [method |-> "POST", path |-> path, json |-> body]

(***************************************************************************)
(* AkamaiDiag, lines 161-227.                                              *)
(***************************************************************************)
\* the path urldebug requests, lines 166-170
UrlDebugPath(account, url) ==
    ApiPath(account, <<"/diagnostic-tools/v2/url-debug">>, Dict(<<Item(<<"url">>, url)>>))

\* lines 174-176: the error code reference asks the translation of
ErrorCode(reference) ==
    LET errorCode == Unescape(reference)
    IN  IF Contains(errorCode, "#") THEN Split(errorCode, "#")[2] ELSE errorCode

\* the path reference requests, lines 177-180
ReferencePath(account, reference) ==
    ApiPath(account,
            <<"/diagnostic-tools/v2/errors", "/">> \o ErrorCode(reference)
                \o <<"/", "translated-error">>,
            None)

\* the path estats requests, lines 184-188
EstatsPath(account, url) ==
    ApiPath(account, <<"/diagnostic-tools/v2/estat">>, Dict(<<Item(<<"url">>, url)>>))

\* the path cpstats requests, lines 192-194
CpstatsPath(account, cpcode) ==
    ApiPath(account,
            <<"/diagnostic-tools/v2/cpcodes", "/">> \o cpcode \o <<"/", "estats">>,
            None)

\* the path propertybyhostname posts to, line 200
SearchPath(account) == ApiPath(account, <<"/papi/v1/search/find-by-value">>, None)

RECURSIVE FirstActive(_)
\* lines 204-207: the first version in production, or None
FirstActive(items) ==
    IF items = <<>> THEN None
    ELSE IF Head(items).productionStatus = "ACTIVE" THEN Head(items)
    ELSE FirstActive(Tail(items))

\* the path propertyrules requests, lines 212-218
RulesPath(account, property) ==
    ApiPath(account,
            <<"/papi/v1/properties/">> \o property.propertyId \o <<"/versions/">>
                \o DecimalDigits(property.propertyVersion) \o <<"/rules">>,
            Dict(<<Item(<<"contractId">>, property.contractId),
                   Item(<<"groupId">>, property.groupId),
                   Item(<<"validateMode">>, <<"fast">>),
                   Item(<<"validateRules">>, <<"false">>)>>))

(***************************************************************************)
(* The __main__ block, lines 229-295.  pc = "main" is line 261, after the  *)
(* arguments were parsed and the client was built.                         *)
(***************************************************************************)
NoCommand == "(none)"

\* mutant of EntryRaises: an entry without name raises whatever its value
EntryRaises_Strict(x) == ~HasKey(x, "value") \/ ~HasKey(x, "name")

\* lines 265-267, one entry of httpResponse: does it raise KeyError
EntryRaises(x) ==
    \/ ~HasKey(x, "value")
    \/ x.value # <<>> /\ ~HasKey(x, "name")

RECURSIVE PrintEntries(_, _)
\* lines 265-267: the lines printed before the loop ends or an entry raises
PrintEntries(entries, out) ==
    IF entries = <<>> THEN [out |-> out, raised |-> FALSE]
    ELSE LET x == Head(entries)
         IN  IF EntryRaises(x) THEN [out |-> out, raised |-> TRUE]
             ELSE PrintEntries(Tail(entries),
                               IF x.value # <<>>
                               THEN Append(out, Line(KeyValueLine(x.name, x.value)))
                               ELSE out)

\* lines 264-269: what the urldebug command prints for result
UrlDebugOutput(res) ==
    IF ~HasKey(res, "urlDebug") \/ ~HasKey(res["urlDebug"], "httpResponse")
    THEN <<JsonDumps(res, 2)>>
    ELSE LET tried == PrintEntries(res["urlDebug"]["httpResponse"], <<>>)
         IN  IF tried.raised THEN Append(tried.out, JsonDumps(res, 2)) ELSE tried.out

\* lines 261-269
CmdUrldebug ==
    /\ pc = "main"
    /\ args.command = "urldebug"
    /\ requests' = Append(requests, Get(UrlDebugPath(args.account, args.param)))
    /\ result' = api.urlDebug
    /\ stdout' = stdout \o UrlDebugOutput(api.urlDebug)
    /\ pc' = "json"
    /\ UNCHANGED <<exception, args, api, rules, heap, given, behaviors, criteria,
                   stack, stderr, jsonfile>>

\* line 275: is the value of a translatedError item printed
Printed(v) ==
    \/ HasKey(v, "text") /\ v.text # <<>>
    \/ HasKey(v, "int") /\ v.int # 0

\* '{}'.format(v) of a str or of an int
Format(v) == IF HasKey(v, "text") THEN v.text ELSE DecimalDigits(v.int)

RECURSIVE PrintTranslated(_)
\* lines 274-276, te being the items of translatedError in their order
PrintTranslated(te) ==
    IF te = <<>> THEN <<>>
    ELSE (IF Printed(Head(te).value)
          THEN <<Line(KeyValueLine(Head(te).key, Format(Head(te).value)))>>
          ELSE <<>>)
         \o PrintTranslated(Tail(te))

\* lines 271-276
CmdReference ==
    /\ pc = "main"
    /\ args.command = "reference"
    /\ requests' = Append(requests, Get(ReferencePath(args.account, args.param)))
    /\ result' = api.translated
    /\ IF HasKey(api.translated, "translatedError")
       THEN /\ stdout' = stdout \o PrintTranslated(api.translated["translatedError"].items)
            /\ pc' = "json"
            /\ exception' = exception
       ELSE /\ pc' = "raised"
            /\ exception' = "KeyError"
            /\ stdout' = stdout
    /\ UNCHANGED <<args, api, rules, heap, given, behaviors, criteria, stack, stderr,
                   jsonfile>>

\* line 279 down to line 225: origins calls propertyrules, which calls
\* propertybyhostname; origins then returns None or constructs RuleInfo(rules)
CmdOrigins ==
    /\ pc = "main"
    /\ args.command = "origins"
    /\ LET search == Post(SearchPath(args.account), [hostname |-> args.param])
           found == HasKey(api.search, "versions") /\ HasKey(api.search["versions"], "items")
           property == IF found THEN FirstActive(api.search["versions"]["items"]) ELSE None
       IN  IF ~found
           THEN /\ requests' = Append(requests, search)
                /\ pc' = "raised"
                /\ exception' = "KeyError"
                /\ UNCHANGED <<rules, heap, given, result>>
           ELSE IF property = None
           THEN /\ requests' = Append(requests, search)
                /\ result' = None
                /\ pc' = "origins.print"
                /\ UNCHANGED <<rules, heap, given, exception>>
           ELSE /\ requests' = requests \o <<search, Get(RulesPath(args.account, property))>>
                /\ IF Truthy(api.rules)
                   THEN /\ rules' = api.rules
                        /\ heap' = api.heap
                        /\ given' = api.heap
                        /\ pc' = "RuleInfo.__init__"
                        /\ result' = result
                   ELSE /\ result' = None
                        /\ pc' = "origins.print"
                        /\ UNCHANGED <<rules, heap, given>>
                /\ exception' = exception
    /\ UNCHANGED <<args, api, behaviors, criteria, stack, stdout, stderr, jsonfile>>

\* line 226 and the assignment of line 279
OriginsReturn ==
    /\ pc = "constructed"
    /\ args.command = "origins"
    /\ IF HasKey(behaviors, "origin")
       THEN /\ result' = List(behaviors["origin"])
            /\ pc' = "origins.print"
            /\ exception' = exception
       ELSE /\ pc' = "raised"
            /\ exception' = "KeyError"
            /\ result' = result
    /\ UNCHANGED <<args, api, requests, rules, heap, given, behaviors, criteria,
                   stack, stdout, stderr, jsonfile>>

\* lines 284-288: what is printed for one origin behavior
OriginLines(x) ==
    LET o == x.options
    IN  IF o.originType = "CUSTOMER" THEN <<Line(o.hostname)>>
        ELSE IF o.originType = "NET_STORAGE" THEN <<Line(o.netStorage.downloadDomainName)>>
        ELSE <<>>

RECURSIVE PrintOrigins_StopAtOther(_)
\* mutant of PrintOrigins: the loop ends at an origin of another type
PrintOrigins_StopAtOther(list) ==
    IF list = <<>> \/ Head(list).options.originType \notin {"CUSTOMER", "NET_STORAGE"}
    THEN <<>>
    ELSE OriginLines(Head(list)) \o PrintOrigins_StopAtOther(Tail(list))

RECURSIVE PrintOrigins(_)
\* lines 283-288
PrintOrigins(list) ==
    IF list = <<>> THEN <<>> ELSE OriginLines(Head(list)) \o PrintOrigins(Tail(list))

Problem == Line(<<"Problem, hostname incorrect or issue with accessing the API">>)

\* lines 280-288
OriginsPrint ==
    /\ pc = "origins.print"
    /\ IF result = None
       THEN /\ stderr' = Append(stderr, Problem)
            /\ stdout' = stdout
       ELSE /\ stdout' = stdout \o PrintOrigins(result.list)
            /\ stderr' = stderr
    /\ pc' = "json"
    /\ UNCHANGED <<exception, args, api, requests, rules, heap, given, behaviors,
                   criteria, stack, result, jsonfile>>

\* line 291: what parser.print_help() writes for the parser of lines 230-248,
\* whose description is the module's docstring (lines 21-33)
Usage ==
    << Line(<<"usage: akamai-get.py [-h] [--account ACCOUNT] [--edgerc EDGERC]">>),
       Line(<<"                     [--section SECTION] [--json JSON] [--debug DEBUG]">>),
       Line(<<"                     {urldebug,reference,origins} ...">>),
       Line(<<>>),
       Line(<<"akamai-get - get Akamai stuff">>),
       Line(<<>>),
       Line(<<"urldebug   - provide an akamaized url and receive information like statuscode, cpcode, origin">>),
       Line(<<"reference  - translate an Akamai reference or errorstring">>),
       Line(<<"origins    - abstract the origins used from a property configurations">>),
       Line(<<>>),
       Line(<<"Use --help to get syntax info">>),
       Line(<<"Full information can be reviewed using --json export.json">>),
       Line(<<>>),
       Line(<<"Eric Debeij">>),
       Line(<<>>),
       Line(<<"positional arguments:">>),
       Line(<<"  {urldebug,reference,origins}">>),
       Line(<<>>),
       Line(<<"options:">>),
       Line(<<"  -h, --help            show this help message and exit">>),
       Line(<<"  --account ACCOUNT     account selector">>),
       Line(<<"  --edgerc EDGERC       Path to the edgerc file">>),
       Line(<<"  --section SECTION     Edgerc section">>),
       Line(<<"  --json JSON           Export into json">>),
       Line(<<"  --debug DEBUG         Do some logging">>) >>

\* lines 290-291
CmdHelp ==
    /\ pc = "main"
    /\ args.command = NoCommand
    /\ stdout' = stdout \o Usage
    /\ pc' = "json"
    /\ UNCHANGED <<exception, args, api, requests, rules, heap, given, behaviors,
                   criteria, stack, result, stderr, jsonfile>>

\* lines 293-295: the file is opened for writing before result is evaluated
JsonExport ==
    /\ pc = "json"
    /\ IF TruthyText(args.json)
       THEN IF result = Undefined
            THEN /\ jsonfile' = EmptyFile
                 /\ pc' = "raised"
                 /\ exception' = "NameError"
            ELSE /\ jsonfile' = JsonFile(result)
                 /\ pc' = "done"
                 /\ exception' = exception
       ELSE /\ pc' = "done"
            /\ UNCHANGED <<jsonfile, exception>>
    /\ UNCHANGED <<args, api, requests, rules, heap, given, behaviors, criteria,
                   stack, result, stdout, stderr>>

(***************************************************************************)
(* The invocations the model runs: arguments and API answers.              *)
(***************************************************************************)
Account == <<"B-C-1ED34DK", ":", "1-8BYUX">>
Accounts == {None, Text(Account)}
JsonPaths == {None, Text(<<"export.json">>)}

TestUrl == <<"https", ":", "/", "/", "www.example.com", "/">>
Hostname == <<"www.example.com">>

\* the entries an httpResponse list is made of
HeaderEntries ==
    { [name |-> <<"C", "P">>, value |-> <<"4", "2">>],
      [name |-> <<"T", "T", "L">>, value |-> <<>>],
      [name |-> <<"I", "P">>],
      [value |-> <<"2", "0", "0">>],
      [value |-> <<>>] }

RefChars == {"E", "#", "?", "&", "3", "5", ";"}

TranslatedBodies ==
    { ErrorBody,
      [translatedError |->
          Dict(<<Item(<<"u", "r", "l">>, Text(<<"h", "/">>)),
                 Item(<<"c", "o", "d", "e">>, [int |-> 503]),
                 Item(<<"h", "i", "t">>, [int |-> 0]),
                 Item(<<"i", "p">>, Text(<<>>)),
                 Item(<<"l", "o", "g", "s">>, List(<<"r">>))>>)] }

Version(n, status) ==
    [propertyId |-> <<"prp_175780">>, propertyVersion |-> n,
     contractId |-> <<"ctr_1-1TJZFW">>, groupId |-> <<"grp_15166">>,
     productionStatus |-> status]

\* answers of the hostname search with no version in production
FailedSearches ==
    { ErrorBody,
      [versions |-> [items |-> <<>>]],
      [versions |-> [items |-> <<Version(3, "INACTIVE"), Version(2, "DEACTIVATED")>>]] }

FoundSearch ==
    [versions |-> [items |-> <<Version(13, "INACTIVE"), Version(12, "ACTIVE")>>]]

Args(command, param, account, json) ==
    [command |-> command, param |-> param, account |-> account, json |-> json]
Api(urlDebug, translated, search, rulesBody, objects) ==
    [urlDebug |-> urlDebug, translated |-> translated, search |-> search,
     rules |-> rulesBody, heap |-> objects]

\* how the script is started: the working directory, the script as named on
\* the command line, and whether DeprecationWarnings of __main__ are shown
\* (the default) or ignored (PYTHONWARNINGS=ignore, or a urllib3 before 1.26,
\* whose Retry does not warn)
Launch(cwd, argv0, warnings) == [cwd |-> cwd, argv0 |-> argv0, warnings |-> warnings]
RunDir == <<"/root/workspace/validation/run">>
Launches ==
    { Launch(RunDir, <<"src", "/", "akamai-get.py">>, "default"),
      Launch(RunDir \o <<"/", "src">>, <<"akamai-get.py">>, "default"),
      Launch(RunDir \o <<"/", "src">>, <<".", "/", "akamai-get.py">>, "default"),
      Launch(RunDir, <<"src", "/", "akamai-get.py">>, "ignore") }

\* the file name of the script as the interpreter reports it in a warning:
\* the path of the command line, made absolute with the working directory
\* and not normalised
ScriptFile(cwd, argv0) ==
    IF Head(argv0) = "/" THEN argv0 ELSE cwd \o <<"/">> \o argv0

\* lines 125-130: the module-level Retry(..., method_whitelist=...).  With
\* urllib3 1.26 the keyword is deprecated and Retry warns at its caller; the
\* caller is the module run as __main__, so the warning is shown, with the
\* source line, on standard error before line 261 is reached.  (With
\* urllib3 2 the keyword is gone, line 125 raises TypeError and the program
\* has no run to model.)
RetryWarning(launch) ==
    IF launch.warnings = "ignore" THEN <<>>
    ELSE << Line(ScriptFile(launch.cwd, launch.argv0)
                 \o <<":125: DeprecationWarning: ",
                      "Using 'method_whitelist' with Retry is deprecated and will be removed in v2.0. Use 'allowed_methods' instead">>),
            Line(<<"  retry_strategy = Retry(">>) >>

\* one run: the command line and what the API answers to it
Invocation(as, ap) ==
    \E a \in Accounts, j \in JsonPaths :
        \/ \E b \in {ErrorBody, [urlDebug |-> EmptyDict]} :
              /\ as = Args("urldebug", TestUrl, a, j)
              /\ ap = Api(b, EmptyDict, EmptyDict, EmptyDict, <<>>)
        \/ \E n \in 0..MaxEntries : \E l \in [1..n -> HeaderEntries] :
              /\ as = Args("urldebug", TestUrl, a, j)
              /\ ap = Api([urlDebug |-> [httpResponse |-> l]], EmptyDict, EmptyDict,
                          EmptyDict, <<>>)
        \/ \E n \in 0..MaxRefLen : \E r \in [1..n -> RefChars], b \in TranslatedBodies :
              /\ as = Args("reference", r, a, j)
              /\ ap = Api(EmptyDict, b, EmptyDict, EmptyDict, <<>>)
        \/ \E s \in FailedSearches :
              /\ as = Args("origins", Hostname, a, j)
              /\ ap = Api(EmptyDict, EmptyDict, s, EmptyDict, <<>>)
        \/ \E b \in {EmptyDict, ErrorBody} :
              /\ as = Args("origins", Hostname, a, j)
              /\ ap = Api(EmptyDict, EmptyDict, FoundSearch, b, <<>>)
        \/ \E n \in 1..MaxCliNodes : \E parent \in Parents(n) :
              \/ \E payload \in [1..n -> CliPayloads] :
                    /\ as = Args("origins", Hostname, a, j)
                    /\ ap = Api(EmptyDict, EmptyDict, FoundSearch, RuleTree,
                                MakeHeap(n, parent, payload))
              \/ \E m \in 1..n, k \in RuleKeys :
                    /\ as = Args("origins", Hostname, a, j)
                    /\ ap = Api(EmptyDict, EmptyDict, FoundSearch, RuleTree,
                                Malformed(n, parent, m, k))
        \/ /\ as = Args(NoCommand, <<>>, a, j)
           /\ ap = Api(EmptyDict, EmptyDict, EmptyDict, EmptyDict, <<>>)

Init ==
    /\ pc = "main"
    /\ exception = NoException
    /\ Invocation(args, api)
    /\ requests = <<>>
    /\ rules = None
    /\ heap = <<>>
    /\ given = <<>>
    /\ behaviors = EmptyDict
    /\ criteria = EmptyDict
    /\ stack = <<>>
    /\ result = Undefined
    /\ stdout = <<>>
    /\ \E launch \in Launches : stderr = RetryWarning(launch)
    /\ jsonfile = None

Next ==
    \/ CmdUrldebug
    \/ CmdReference
    \/ CmdOrigins
    \/ RuleInfoInit
    \/ RunRulesBody
    \/ RunRulesChild
    \/ RunRulesReturn
    \/ OriginsReturn
    \/ OriginsPrint
    \/ CmdHelp
    \/ JsonExport

\* one run of the command line
Spec == Init /\ [][Next]_vars

(***************************************************************************)
(* The methods of AkamaiDiag called one at a time on a client built with   *)
(* an account or without: pc = "AkamaiDiag" is the call, args holds the    *)
(* method, its argument and the client's account, api.responses the        *)
(* answers of the session in the order of the requests, and result the     *)
(* value the method returns.                                               *)
(***************************************************************************)
\* one request answered with response.json(): urldebug, estats, reference, cpstats
Answer(path) ==
    /\ requests' = Append(requests, Get(path))
    /\ result' = api.responses[1]
    /\ pc' = "returned"
    /\ UNCHANGED <<exception, args, api, rules, heap, given, behaviors, criteria,
                   stack, stdout, stderr, jsonfile>>

\* lines 165-171
DiagUrldebug ==
    /\ pc = "AkamaiDiag"
    /\ args.command = "urldebug"
    /\ Answer(UrlDebugPath(args.account, args.param))

\* lines 173-181
DiagReference ==
    /\ pc = "AkamaiDiag"
    /\ args.command = "reference"
    /\ Answer(ReferencePath(args.account, args.param))

\* lines 183-189
DiagEstats ==
    /\ pc = "AkamaiDiag"
    /\ args.command = "estats"
    /\ Answer(EstatsPath(args.account, args.param))

\* lines 191-195
DiagCpstats ==
    /\ pc = "AkamaiDiag"
    /\ args.command = "cpstats"
    /\ Answer(CpstatsPath(args.account, args.param))

\* line 204: the answer of the search can be iterated
HasItems(body) == HasKey(body, "versions") /\ HasKey(body["versions"], "items")

\* lines 197-207
DiagPropertyByHostname ==
    /\ pc = "AkamaiDiag"
    /\ args.command = "propertybyhostname"
    /\ requests' = Append(requests,
                          Post(SearchPath(args.account), [hostname |-> args.param]))
    /\ IF HasItems(api.responses[1])
       THEN /\ result' = FirstActive(api.responses[1]["versions"]["items"])
            /\ pc' = "returned"
            /\ exception' = exception
       ELSE /\ pc' = "raised"
            /\ exception' = "KeyError"
            /\ result' = result
    /\ UNCHANGED <<args, api, rules, heap, given, behaviors, criteria, stack,
                   stdout, stderr, jsonfile>>

\* lines 209-220
DiagPropertyRules ==
    /\ pc = "AkamaiDiag"
    /\ args.command = "propertyrules"
    /\ LET search == Post(SearchPath(args.account), [hostname |-> args.param])
           property == IF HasItems(api.responses[1])
                       THEN FirstActive(api.responses[1]["versions"]["items"])
                       ELSE None
       IN  IF ~HasItems(api.responses[1])
           THEN /\ requests' = Append(requests, search)
                /\ pc' = "raised"
                /\ exception' = "KeyError"
                /\ result' = result
           ELSE IF property = None
           THEN /\ requests' = Append(requests, search)
                /\ result' = None
                /\ pc' = "returned"
                /\ exception' = exception
           ELSE /\ requests' = requests \o <<search, Get(RulesPath(args.account, property))>>
                /\ result' = api.responses[2]
                /\ pc' = "returned"
                /\ exception' = exception
    /\ UNCHANGED <<args, api, rules, heap, given, behaviors, criteria, stack,
                   stdout, stderr, jsonfile>>

\* lines 150-153: the caller's parameters argument after the call.  A dict
\* that is not empty gets the account written into it; for None and {} line
\* 152 binds a new dict and the caller's argument stays as it was.
ParametersAfter(account, parameters) ==
    IF TruthyText(account) /\ parameters # None /\ parameters.items # <<>>
    THEN Dict(SetItem(parameters.items, AccountKey, account.text))
    ELSE parameters

\* lines 149-159 called with an endpoint and a parameters argument
DiagApiPath ==
    /\ pc = "AkamaiDiag"
    /\ args.command = "_apipath"
    /\ result' = Text(ApiPath(args.account, args.param.endpoint, args.param.parameters))
    /\ args' = [args EXCEPT !.param.parameters = ParametersAfter(args.account, @)]
    /\ pc' = "returned"
    /\ UNCHANGED <<exception, api, requests, rules, heap, given, behaviors,
                   criteria, stack, stdout, stderr, jsonfile>>

\* the characters of a cpcode argument
CpChars == {"1", "7", "?", "#", ";"}

\* the answers of a diagnostic call
DiagBodies == {ErrorBody, EmptyDict, [urlDebug |-> EmptyDict]}

\* the endpoints and the parameters _apipath is called with
Endpoints == { <<"/diagnostic-tools/v2/estat">>,
               <<"/diagnostic-tools/v2/estat", "?", "url", "=", "x">>,
               <<"/papi/v1/search/find-by-value">> }
Parameters == { None, Dict(<<>>), Dict(<<Item(<<"url">>, TestUrl)>>),
                Dict(<<Item(AccountKey, <<"other">>), Item(<<"url">>, TestUrl)>>) }

Responses(bodies) == [responses |-> bodies]

\* one call: the method, its argument, the client's account and the answers
MethodCall(as, ap) ==
    \E a \in Accounts :
        \/ \E m \in {"urldebug", "estats"}, b \in DiagBodies :
              /\ as = Args(m, TestUrl, a, None)
              /\ ap = Responses(<<b>>)
        \/ \E n \in 0..MaxRefLen : \E r \in [1..n -> RefChars], b \in TranslatedBodies :
              /\ as = Args("reference", r, a, None)
              /\ ap = Responses(<<b>>)
        \/ \E n \in 0..MaxRefLen : \E c \in [1..n -> CpChars], b \in DiagBodies :
              /\ as = Args("cpstats", c, a, None)
              /\ ap = Responses(<<b>>)
        \/ \E s \in FailedSearches \cup {FoundSearch} :
              /\ as = Args("propertybyhostname", Hostname, a, None)
              /\ ap = Responses(<<s>>)
        \/ \E s \in FailedSearches \cup {FoundSearch}, b \in {EmptyDict, ErrorBody, RuleTree} :
              /\ as = Args("propertyrules", Hostname, a, None)
              /\ ap = Responses(<<s, b>>)
        \/ \E e \in Endpoints, p \in Parameters :
              /\ as = Args("_apipath", [endpoint |-> e, parameters |-> p], a, None)
              /\ ap = Responses(<<>>)

InitDiag ==
    /\ pc = "AkamaiDiag"
    /\ exception = NoException
    /\ MethodCall(args, api)
    /\ requests = <<>>
    /\ rules = None
    /\ heap = <<>>
    /\ given = <<>>
    /\ behaviors = EmptyDict
    /\ criteria = EmptyDict
    /\ stack = <<>>
    /\ result = Undefined
    /\ stdout = <<>>
    /\ stderr = <<>>
    /\ jsonfile = None

NextDiag ==
    \/ DiagUrldebug
    \/ DiagReference
    \/ DiagEstats
    \/ DiagCpstats
    \/ DiagPropertyByHostname
    \/ DiagPropertyRules
    \/ DiagApiPath

SpecDiag == InitDiag /\ [][NextDiag]_vars

(***************************************************************************)
(* Document order of a rule tree, stated on the tree itself.               *)
(***************************************************************************)
RECURSIVE Preorder(_, _), PreorderAll(_, _)
\* the nodes under i, i first, then each child's subtree in list order
Preorder(h, i) == <<i>> \o PreorderAll(h, h[i].children)
PreorderAll(h, ids) ==
    IF ids = <<>> THEN <<>>
    ELSE Preorder(h, Head(ids)) \o PreorderAll(h, Tail(ids))

\* every node has the two lists whose absence is an error
Flattenable(h) ==
    \A i \in DOMAIN h : HasKey(h[i], "behaviors") /\ HasKey(h[i], "children")

RECURSIVE BehaviorsOf(_, _)
\* the behaviors of the nodes ids, node after node
BehaviorsOf(h, ids) ==
    IF ids = <<>> THEN <<>>
    ELSE h[Head(ids)].behaviors \o BehaviorsOf(h, Tail(ids))

DocumentBehaviors(h) == BehaviorsOf(h, Preorder(h, 1))

\* criterion c as owned by node i: its rulename is the name of node i
Owned(h, i, c) ==
    [k \in (DOMAIN c) \cup {"rulename"} |-> IF k = "rulename" THEN h[i].name ELSE c[k]]

OwnedCriteria(h, i) ==
    IF HasKey(h[i], "criteria")
    THEN [j \in 1..Len(h[i].criteria) |-> Owned(h, i, h[i].criteria[j])]
    ELSE <<>>

RECURSIVE CriteriaOf(_, _)
CriteriaOf(h, ids) ==
    IF ids = <<>> THEN <<>>
    ELSE OwnedCriteria(h, Head(ids)) \o CriteriaOf(h, Tail(ids))

DocumentCriteria(h) == CriteriaOf(h, Preorder(h, 1))

Names(list) == {list[i].name : i \in 1..Len(list)}
Named(list, nm) == SelectSeq(list, LAMBDA e : e.name = nm)

\* RuleInfo was handed a rule tree all of whose nodes can be flattened
TreeGiven == rules = RuleTree /\ Flattenable(given)

(***************************************************************************)
(* Claims about one run of the command line.                               *)
(***************************************************************************)
Printing == pc \in {"json", "done"}

(***************************************************************************)
(* C4: the reference lookup requests the translation of the text that      *)
(* follows the '#' of the (HTML-unescaped) error reference, to the end of  *)
(* the text, also when it holds more than one '#'; a reference without '#' *)
(* is used whole.                                                          *)
(***************************************************************************)
C4_ReferenceUsesAllAfterHash ==
    (args.command = "reference" /\ Printing) =>
        LET ref == Unescape(args.param)
            afterHash == SubSeq(ref, IndexOf(ref, "#") + 1, Len(ref))
            code == IF Contains(ref, "#") THEN afterHash ELSE ref
        IN  requests[1].path =
                ApiPath(args.account,
                        <<"/diagnostic-tools/v2/errors", "/">> \o code
                            \o <<"/", "translated-error">>,
                        None)

\* the lines the origins command owes for one origin behavior
OwedLines(b) ==
    CASE b.options.originType = "CUSTOMER" -> <<Line(b.options.hostname)>>
      [] b.options.originType = "NET_STORAGE" ->
            <<Line(b.options.netStorage.downloadDomainName)>>
      [] OTHER -> <<>>

RECURSIVE OwedFor(_)
OwedFor(list) == IF list = <<>> THEN <<>> ELSE OwedLines(Head(list)) \o OwedFor(Tail(list))

(***************************************************************************)
(* C5: once the origins command has printed for a rule tree with origin    *)
(* behaviors, standard output holds, in the document order of the origin   *)
(* behaviors (depth-first pre-order of the rules, list order within a      *)
(* rule), the hostname of each CUSTOMER origin and the download domain     *)
(* name of each NET_STORAGE origin, one line each; an origin of another    *)
(* type adds no line and does not end the output.                          *)
(***************************************************************************)
C5_OriginsPrintedInDocumentOrder ==
    (args.command = "origins" /\ Printing /\ result # None) =>
        stdout = OwedFor(Named(DocumentBehaviors(given), "origin"))

\* a finished origins run on a tree whose pre-order (1, 2, 4, 3) is not the
\* order in which the rules were numbered: rule 2 holds an origin of another
\* type before a CUSTOMER origin, its child rule 4 a NET_STORAGE origin, and
\* rule 3, the second child of the root, the same as rule 2, printed last
C5_Witness ==
    /\ pc = "done"
    /\ args.command = "origins"
    /\ result # None
    /\ DOMAIN given = 1..4
    /\ given[1].children = <<2, 3>>
    /\ given[2].children = <<4>>
    /\ given[2].behaviors = <<OriginOther, OriginCustomerC>>
    /\ given[3].behaviors = <<OriginOther, OriginCustomerC>>
    /\ given[4].behaviors = <<OriginNetStorage, Caching>>
    /\ Len(result.list) > Len(stdout)
    /\ stdout = << Line(<<"c.example.com">>), Line(<<"b.example.com.download">>),
                   Line(<<"c.example.com">>) >>

\* the three failed lookups C6 names
NoActiveVersion ==
    /\ HasKey(api.search, "versions")
    /\ FirstActive(api.search["versions"]["items"]) = None
EmptyRulesAnswer == api.search = FoundSearch /\ api.rules = EmptyDict
TreeWithoutOrigin ==
    /\ api.search = FoundSearch
    /\ api.rules = RuleTree
    /\ Flattenable(api.heap)
    /\ "origin" \notin Names(DocumentBehaviors(api.heap))

(***************************************************************************)
(* C6: when the hostname search has no ACTIVE version, when the rules      *)
(* answer is empty, and when the rule tree holds no behavior named origin, *)
(* the origins command raises nothing: origins() returns None, the problem *)
(* message goes to standard error and nothing to standard output.          *)
(***************************************************************************)
C6_FailedLookupYieldsNone ==
    (args.command = "origins"
        /\ (NoActiveVersion \/ EmptyRulesAnswer \/ TreeWithoutOrigin)) =>
        /\ pc # "raised"
        /\ Printing => /\ result = None
                       /\ \E i \in 1..Len(stderr) : stderr[i] = Problem
                       /\ stdout = <<>>

\* the API answered every call of the run with a body the command can use
Answered ==
    /\ args.command = "reference" => HasKey(api.translated, "translatedError")
    /\ args.command = "origins" =>
          /\ HasKey(api.search, "versions")
          /\ api.search = FoundSearch =>
                \/ api.rules = EmptyDict
                \/ /\ api.rules = RuleTree
                   /\ Flattenable(api.heap)
                   /\ "origin" \in Names(DocumentBehaviors(api.heap))

(***************************************************************************)
(* C8: whatever the command (urldebug, reference, origins, none) and with  *)
(* or without --json, a run whose API calls are answered ends normally:    *)
(* no exception is raised, with no command the usage text is printed, and  *)
(* with --json the result of the command is written to the file.           *)
(***************************************************************************)
C8_EveryInvocationCompletes ==
    Answered =>
        /\ pc # "raised"
        /\ (pc = "done" /\ args.command = NoCommand) => stdout = Usage
        /\ (pc = "done" /\ TruthyText(args.json)) =>
              (result # Undefined /\ jsonfile = JsonFile(result))

\* the key/value lines of the entries of l that have a non-empty value
ValueLines(l) ==
    LET shown == SelectSeq(l, LAMBDA x : x.value # <<>>)
    IN  [i \in 1..Len(shown) |-> Line(KeyValueLine(shown[i].name, shown[i].value))]

(***************************************************************************)
(* C9 as claimed: the urldebug command prints either the key/value lines   *)
(* of a well-formed answer or, for a malformed answer (urlDebug or         *)
(* httpResponse missing, an entry without name or value), the JSON dump    *)
(* alone.                                                                  *)
(***************************************************************************)
C9_LinesOrDumpNeverBoth ==
    (args.command = "urldebug" /\ Printing) =>
        LET body == api.urlDebug
            wellFormed ==
                /\ HasKey(body, "urlDebug")
                /\ HasKey(body["urlDebug"], "httpResponse")
                /\ \A i \in 1..Len(body["urlDebug"]["httpResponse"]) :
                      /\ HasKey(body["urlDebug"]["httpResponse"][i], "name")
                      /\ HasKey(body["urlDebug"]["httpResponse"][i], "value")
        IN  stdout = IF wellFormed
                     THEN ValueLines(body["urlDebug"]["httpResponse"])
                     ELSE <<JsonDumps(body, 2)>>

\* an entry on which the loop of lines 265-267 fails
Failing(x) == ~HasKey(x, "value") \/ (x.value # <<>> /\ ~HasKey(x, "name"))

\* the entries of l before the first failing one
BeforeFailure(l) ==
    IF \E i \in 1..Len(l) : Failing(l[i])
    THEN SubSeq(l, 1, (CHOOSE i \in 1..Len(l) :
                          Failing(l[i]) /\ \A j \in 1..(i - 1) : ~Failing(l[j])) - 1)
    ELSE l

(***************************************************************************)
(* C9 as amended: the urldebug command prints the key/value lines of the   *)
(* entries with a non-empty value that come before the first entry that    *)
(* lacks value, or has a non-empty value and lacks name; if there is such  *)
(* an entry, or urlDebug or httpResponse is missing, the JSON dump of the  *)
(* whole result follows those lines as the last output.  An entry with an  *)
(* empty value and no name is skipped without a dump.                      *)
(***************************************************************************)
C9_LinesThenDumpAtFirstFailure ==
    (args.command = "urldebug" /\ Printing) =>
        LET body == api.urlDebug
        IN  IF HasKey(body, "urlDebug") /\ HasKey(body["urlDebug"], "httpResponse")
            THEN LET l == body["urlDebug"]["httpResponse"]
                     good == BeforeFailure(l)
                 IN  stdout = ValueLines(good)
                              \o (IF Len(good) < Len(l) THEN <<JsonDumps(body, 2)>>
                                  ELSE <<>>)
            ELSE stdout = <<JsonDumps(body, 2)>>

\* a urldebug run that printed a key/value line and then the dump, after
\* skipping an entry without name whose value is empty
C9_Witness ==
    /\ args.command = "urldebug"
    /\ pc = "done"
    /\ Len(stdout) = 2
    /\ HasKey(stdout[1], "line")
    /\ stdout[2] = JsonDumps(api.urlDebug, 2)
    /\ api.urlDebug["urlDebug"]["httpResponse"][1] = [value |-> <<>>]

\* the path carries accountSwitchKey=account as one parameter of its query
\* (and not in the fragment that follows a '#')
CarriesAccount(path, account) ==
    \E i \in 2..Len(path) :
        /\ path[i] = "accountSwitchKey"
        /\ path[i - 1] \in {"?", "&"}
        /\ Contains(SubSeq(path, 1, i - 1), "?")
        /\ ~Contains(SubSeq(path, 1, i - 1), "#")
        /\ SubSeq(path, i + 1, i + 1 + Len(account)) = <<"=">> \o QuotePlus(account)
        /\ (i + 1 + Len(account) = Len(path) \/ path[i + 2 + Len(account)] = "&")

\* the paths _apipath produced during the call
PathsProduced ==
    IF args.command = "_apipath" THEN <<result.text>>
    ELSE [n \in 1..Len(requests) |-> requests[n].path]

(***************************************************************************)
(* C10: on a client built with an account, every path _apipath produces    *)
(* carries the query parameter accountSwitchKey with that account, for     *)
(* every method of AkamaiDiag and for every endpoint and parameters        *)
(* argument of _apipath, the reference lookup included, also when the      *)
(* error code holds a '?'; without an account no path names                *)
(* accountSwitchKey unless the caller's own parameters do.                 *)
(***************************************************************************)
C10_AccountOnEveryRequest ==
    pc = "returned" =>
        \A n \in 1..Len(PathsProduced) :
            IF TruthyText(args.account)
            THEN CarriesAccount(PathsProduced[n], args.account.text)
            ELSE \/ ~Contains(PathsProduced[n], "accountSwitchKey")
                 \/ /\ args.command = "_apipath"
                    /\ args.param.parameters # None
                    /\ \E i \in 1..Len(args.param.parameters.items) :
                          args.param.parameters.items[i].key = AccountKey

(***************************************************************************)
(* C1: for a rule tree, the flattening ends without error and the          *)
(* behaviors mapping has one bucket per behavior name of the tree, each    *)
(* bucket holding the behaviors of that name, each once, in document order *)
(* (depth-first pre-order over the nodes, list order within a node).       *)
(***************************************************************************)
C1_BehaviorsInDocumentOrder ==
    TreeGiven =>
        /\ pc # "raised"
        /\ pc = "constructed" =>
              /\ DOMAIN behaviors = Names(DocumentBehaviors(given))
              /\ \A nm \in DOMAIN behaviors :
                    behaviors[nm] = Named(DocumentBehaviors(given), nm)

\* a finished flattening of a four-node tree with a grandchild that is visited
\* before the root's second child, and origins from several nodes
C1_Witness ==
    /\ pc = "constructed"
    /\ TreeGiven
    /\ DOMAIN given = 1..4
    /\ given[1].children = <<2, 3>>
    /\ given[2].children = <<4>>
    /\ HasKey(behaviors, "origin")
    /\ Len(behaviors["origin"]) >= 4
    /\ HasKey(behaviors, "caching")

(***************************************************************************)
(* C2: for a rule tree, at the end of the flattening every criterion of    *)
(* every node is in the criteria mapping exactly once, in the bucket of    *)
(* its own name, and its rulename is the name of the node whose criteria   *)
(* list holds it; the criterion objects of the tree carry that rulename.   *)
(***************************************************************************)
C2_CriteriaOwnedByTheirRule ==
    (TreeGiven /\ pc = "constructed") =>
        /\ DOMAIN criteria = Names(DocumentCriteria(given))
        /\ \A nm \in DOMAIN criteria :
              criteria[nm] = Named(DocumentCriteria(given), nm)
        /\ \A i \in DOMAIN given :
              HasKey(given[i], "criteria") =>
                  heap[i].criteria = OwnedCriteria(given, i)

\* criteria of one name owned by three different rules, one of which arrived
\* with another rulename
C2_Witness ==
    /\ pc = "constructed"
    /\ TreeGiven
    /\ HasKey(criteria, "path")
    /\ Len(criteria["path"]) >= 3
    /\ \E i, j \in 1..Len(criteria["path"]) :
          /\ i < j
          /\ criteria["path"][i].rulename # "default"
          /\ criteria["path"][i].rulename # criteria["path"][j].rulename
    /\ \E i \in DOMAIN given :
          /\ HasKey(given[i], "criteria")
          /\ \E j \in 1..Len(given[i].criteria) : given[i].criteria[j] = StaleCriterion

(***************************************************************************)
(* C3 as claimed: a visited node that lacks behaviors, criteria or         *)
(* children makes the flattening fail, so a finished flattening has seen   *)
(* no such node.                                                           *)
(***************************************************************************)
C3_AnyMissingListFails ==
    (rules = RuleTree /\ pc = "constructed") =>
        \A i \in DOMAIN given : RuleKeys \subseteq DOMAIN given[i]

\* the node a call is working on
Visited(f) == given[f.rule]

(***************************************************************************)
(* C3 as amended: a visited node that lacks behaviors or children makes    *)
(* the flattening fail with a KeyError that propagates: no call gets past  *)
(* such a node and no index is returned.  A node that lacks criteria is    *)
(* no error: a tree whose nodes all have behaviors and children is         *)
(* flattened without error.                                                *)
(***************************************************************************)
C3_MissingBehaviorsOrChildrenFails ==
    rules = RuleTree =>
        /\ \A n \in 1..Len(stack) :
              stack[n].at = "children" =>
                  HasKey(Visited(stack[n]), "behaviors")
                  /\ HasKey(Visited(stack[n]), "children")
        /\ pc = "constructed" => Flattenable(given)
        /\ pc = "raised" =>
              /\ exception = "KeyError"
              /\ ~Flattenable(given)
              /\ stack # <<>>
              /\ \/ ~HasKey(Visited(stack[Len(stack)]), "behaviors")
                 \/ ~HasKey(Visited(stack[Len(stack)]), "children")

\* the KeyError of a node below the root that has behaviors and criteria but
\* no children, raised after its behaviors were indexed
C3_Witness ==
    /\ pc = "raised"
    /\ exception = "KeyError"
    /\ Len(stack) >= 2
    /\ HasKey(Visited(stack[Len(stack)]), "behaviors")
    /\ ~HasKey(Visited(stack[Len(stack)]), "children")
    /\ HasKey(behaviors, "origin")

(***************************************************************************)
(* C7: RuleInfo constructed with None, with an empty mapping, or with a    *)
(* rule tree whose root holds empty behaviors, criteria and children,      *)
(* raises nothing and ends with behaviors = {} and criteria = {}.          *)
(***************************************************************************)
C7_NoRulesGiveEmptyMappings ==
    (rules \in {None, EmptyDict} \/ (rules = RuleTree /\ given = EmptyRootHeap)) =>
        /\ pc # "raised"
        /\ pc = "constructed" => (behaviors = EmptyDict /\ criteria = EmptyDict)

\* RuleInfo({}) has been constructed
C7_Witness ==
    /\ pc = "constructed"
    /\ rules = EmptyDict
    /\ behaviors = EmptyDict
    /\ criteria = EmptyDict

====
